---- MODULE Spec2Model ----
(***************************************************************************)
(* Door edge device: replication lifecycle (DatabaseService) and the       *)
(* handshake reconciler (HandshakeReplicationService.handleReceived-       *)
(* Replication with its parse / validate / update helpers).                *)
(*                                                                         *)
(* Persisted string fields are sequences of tokens.  A token is a record   *)
(* [t, a, b, c, at]:                                                        *)
(*   t = "{" "}" "[" "]" "," "g" "null"   one character / literal           *)
(*   t = "mem"   the text  "a":"b"        (a member of a JSON object)       *)
(*   t = "ev"    the text of one flat event object                          *)
(*               {"type":a,"at":at,"actor":b,"status":c}                    *)
(* "g" is any text that is not JSON.                                        *)
(***************************************************************************)
EXTENDS Integers, Sequences, FiniteSets, TLC

----------------------------------------------------------------------------
(* Bounds *)

\* number of received$ emissions handled in one behaviour
MaxHandlers == 2

\* number of initialize() calls in one behaviour
MaxInits == 2

\* length of the handshake strings the parsers are called with
MaxStr == 5

\* length of the events strings parseEventsArray is called with
MaxEvents == 4

\* number of door ids in a door_permission validateDoorPermission is called with
MaxPerm == 3

\* number of rows in a push batch
MaxBatch == 2

----------------------------------------------------------------------------
(* Identifiers *)

Doors == {"D1", "D2"}

\* the transactions the server holds
TxnIds == {"T1"}

\* null / undefined / '' of the source
None == ""

\* received.transaction_id: absent, or a transaction's id
ReceivedIds == {None} \cup TxnIds

----------------------------------------------------------------------------
(* Tokens and strings *)

Tok(t, a, b, c, at) == [t |-> t, a |-> a, b |-> b, c |-> c, at |-> at]

LB == Tok("{", "", "", "", 0)

RB == Tok("}", "", "", "", 0)

LSQ == Tok("[", "", "", "", 0)

RSQ == Tok("]", "", "", "", 0)

COMMA == Tok(",", "", "", "", 0)

GARB == Tok("g", "", "", "", 0)

NULL == Tok("null", "", "", "", 0)

Mem(k, v) == Tok("mem", k, v, "", 0)

Ev(type, actor, status, at) == Tok("ev", type, actor, status, at)

\* `DOOR-${doorId}`
Actor(doorId) == "DOOR-" \o doorId

----------------------------------------------------------------------------
(* JavaScript values produced by JSON.parse *)

EmptyMap == [k \in {} |-> ""]

JSVal(kind, map, at, elems) == [kind |-> kind, map |-> map, at |-> at, elems |-> elems]

JSNull == JSVal("null", EmptyMap, 0, <<>>)

JSError == JSVal("error", EmptyMap, 0, <<>>)

JSObj(map) == JSVal("obj", map, 0, <<>>)

JSArr(elems) == JSVal("arr", EmptyMap, 0, elems)

\* the object an event token denotes
JSEvent(tok) == JSVal("obj", [type |-> tok.a, actor |-> tok.b, status |-> tok.c], tok.at, <<>>)

\* Object.assign: keys of m2 override keys of m1
Assign(m1, m2) == [k \in (DOMAIN m1) \cup (DOMAIN m2) |-> IF k \in DOMAIN m2 THEN m2[k] ELSE m1[k]]

PFail == [ok |-> FALSE, v |-> JSError, n |-> 0]

POk(v, n) == [ok |-> TRUE, v |-> v, n |-> n]

IsTok(s, i, t) == i <= Len(s) /\ s[i].t = t

RECURSIVE ParseVal(_, _), ParseElems(_, _, _), ParseMems(_, _, _)

\* one JSON value starting at position i
ParseVal(s, i) ==
  IF i > Len(s) THEN PFail
  ELSE IF s[i].t = "null" THEN POk(JSNull, i + 1)
  ELSE IF s[i].t = "ev" THEN POk(JSEvent(s[i]), i + 1)
  ELSE IF s[i].t = "[" THEN
    IF IsTok(s, i + 1, "]") THEN POk(JSArr(<<>>), i + 2) ELSE ParseElems(s, i + 1, <<>>)
  ELSE IF s[i].t = "{" THEN
    IF IsTok(s, i + 1, "}") THEN POk(JSObj(EmptyMap), i + 2) ELSE ParseMems(s, i + 1, EmptyMap)
  ELSE PFail

ParseElems(s, i, acc) ==
  LET r == ParseVal(s, i) IN
  IF ~r.ok THEN PFail
  ELSE IF IsTok(s, r.n, ",") THEN ParseElems(s, r.n + 1, Append(acc, r.v))
  ELSE IF IsTok(s, r.n, "]") THEN POk(JSArr(Append(acc, r.v)), r.n + 1)
  ELSE PFail

ParseMems(s, i, acc) ==
  IF ~IsTok(s, i, "mem") THEN PFail
  ELSE LET m == Assign(acc, [k \in {s[i].a} |-> s[i].b]) IN
    IF IsTok(s, i + 1, ",") THEN ParseMems(s, i + 2, m)
    ELSE IF IsTok(s, i + 1, "}") THEN POk(JSObj(m), i + 2)
    ELSE PFail

\* JSON.parse: the value, or JSError where JSON.parse throws
JSONparse(s) ==
  LET r == ParseVal(s, 1) IN
  IF r.ok /\ r.n = Len(s) + 1 THEN r.v ELSE JSError

\* JSON.stringify({ [doorId]: 'ok' })
StringifyAck(doorId) == <<LB, Mem(doorId, "ok"), RB>>

\* JSON.stringify({ type: 'RECEIVE', at, actor: `DOOR-${doorId}`, status: 'SUCCESS' })
StringifyEvent(doorId, at) == <<Ev("RECEIVE", Actor(doorId), "SUCCESS", at)>>

----------------------------------------------------------------------------
(* received-parse-utils.ts *)

\* parseEventsArray putting a parsed value that is not an array into an array of one
parseEventsArrayWrapping(events) ==
  IF events = <<>> THEN <<>>
  ELSE LET parsed == JSONparse(events) IN
    IF parsed.kind = "arr" THEN parsed.elems
    ELSE IF parsed.kind = "error" THEN <<>>
    ELSE <<parsed>>

\* parseEventsArray: the parsed array, [] for a missing, unparsable or non-array field
parseEventsArray(events) ==
  IF events = <<>> THEN <<>>
  ELSE LET parsed == JSONparse(events) IN
    IF parsed.kind = "arr" THEN parsed.elems ELSE <<>>

RECURSIVE MemberScan(_, _, _, _, _)

\* a scan that takes every member text "k":"v" it meets as an object of its own,
\* whether or not it stands inside a parsable object
MemberScan(s, i, start, depth, acc) ==
  IF i > Len(s) THEN acc
  ELSE MemberScan(s, i + 1, start, depth,
                  IF s[i].t = "mem" THEN Append(acc, [k \in {s[i].a} |-> s[i].b]) ELSE acc)

RECURSIVE BraceScan(_, _, _, _, _)

\* the for loop of parseHandshakeField: the objects parsed from the substrings
\* s[start..i] at which depth returns to 0
BraceScan(s, i, start, depth, acc) ==
  IF i > Len(s) THEN acc
  ELSE IF s[i].t = "{" THEN
    BraceScan(s, i + 1, IF start = -1 THEN i ELSE start, depth + 1, acc)
  ELSE IF s[i].t = "}" THEN
    IF depth - 1 = 0 /\ start # -1 THEN
      LET parsed == JSONparse(SubSeq(s, start, i)) IN
      BraceScan(s, i + 1, -1, 0, IF parsed.kind = "obj" THEN Append(acc, parsed.map) ELSE acc)
    ELSE BraceScan(s, i + 1, start, depth - 1, acc)
  ELSE BraceScan(s, i + 1, start, depth, acc)

RECURSIVE AssignAll(_)

\* Object.assign({}, ...jsonObjects)
AssignAll(objs) ==
  IF objs = <<>> THEN EmptyMap
  ELSE Assign(AssignAll(SubSeq(objs, 1, Len(objs) - 1)), objs[Len(objs)])

\* parseHandshakeField: the acknowledgment map of a handshake string
parseHandshakeField(handshake) ==
  LET handshakeValue == IF handshake = <<>> THEN <<LB, RB>> ELSE handshake
      first == JSONparse(handshakeValue)
  IN IF first.kind = "obj" THEN first.map
     ELSE AssignAll(BraceScan(handshakeValue, 1, -1, 0, <<>>))

\* the keys Object.assign copies from an array: its indices
Idx(i) == ToString(i - 1)

\* the own enumerable properties Object.assign copies from one parsed value; a value
\* held under an array index is never a string
OwnProps(v) ==
  IF v.kind = "obj" THEN v.map
  ELSE IF v.kind = "arr" THEN [k \in {Idx(i) : i \in 1..Len(v.elems)} |-> "[value]"]
  ELSE EmptyMap

RECURSIVE AssignValues(_)

\* Object.assign({}, ...arr)
AssignValues(arr) ==
  IF arr = <<>> THEN EmptyMap
  ELSE Assign(AssignValues(SubSeq(arr, 1, Len(arr) - 1)), OwnProps(arr[Len(arr)]))

\* parseHandshakeField as the second received-parse-utils.ts has it: the string is
\* wrapped in [ ] unless it starts with one, parsed, and the elements are merged
parseHandshakeFieldWrapped(handshake) ==
  LET handshakeValue == IF handshake = <<>> THEN <<LB, RB>> ELSE handshake
      normalized == IF handshakeValue[1].t = "[" THEN handshakeValue
                    ELSE <<LSQ>> \o handshakeValue \o <<RSQ>>
      arr == JSONparse(normalized)
  IN IF arr.kind = "arr" THEN AssignValues(arr.elems) ELSE EmptyMap

----------------------------------------------------------------------------
(* received-validate-utils.ts *)

\* door_permission is a native array (arr = TRUE, v a sequence of door ids) or a
\* string (arr = FALSE, v its characters: door ids, "," and " ")
PermArr(v) == [arr |-> TRUE, v |-> v]

PermStr(v) == [arr |-> FALSE, v |-> v]

RECURSIVE Split(_, _, _)

\* String.prototype.split(','): the pieces between commas
Split(s, i, cur) ==
  IF i > Len(s) THEN <<cur>>
  ELSE IF s[i] = "," THEN <<cur>> \o Split(s, i + 1, <<>>)
  ELSE Split(s, i + 1, Append(cur, s[i]))

\* trim() leaving the string as it is
TrimNothing(p) == p

RECURSIVE Trim(_)

\* String.prototype.trim()
Trim(p) ==
  IF p = <<>> THEN p
  ELSE IF p[1] = " " THEN Trim(Tail(p))
  ELSE IF p[Len(p)] = " " THEN Trim(SubSeq(p, 1, Len(p) - 1))
  ELSE p

\* the normalized door_permission list; a piece is the one-element sequence of a
\* door id exactly when its text is that door id
doorPermissions(perm) ==
  IF perm.arr THEN [i \in 1..Len(perm.v) |-> <<perm.v[i]>>]
  ELSE LET pieces == Split(perm.v, 1, <<>>) IN [i \in 1..Len(pieces) |-> Trim(pieces[i])]

\* validateDoorPermission with the includes() test inverted
validateDoorPermissionInverted(perm, doorId) ==
  ~\E i \in 1..Len(doorPermissions(perm)) : doorPermissions(perm)[i] = <<doorId>>

\* validateDoorPermission
validateDoorPermission(perm, doorId) ==
  \E i \in 1..Len(doorPermissions(perm)) : doorPermissions(perm)[i] = <<doorId>>

IsReceiveOf(e, doorId) ==
  e.kind = "obj" /\ "type" \in DOMAIN e.map /\ "actor" \in DOMAIN e.map
  /\ e.map["type"] = "RECEIVE" /\ e.map["actor"] = Actor(doorId)

\* hasReceiveEvent that never finds the event
hasReceiveEventNever(eventsArray, doorId) == "false"

\* hasReceiveEvent: "true", "false", or "throw" where event.type is read off null
\* before an element matches (Array.prototype.some stops at the first match)
hasReceiveEvent(eventsArray, doorId) ==
  LET hits == {i \in 1..Len(eventsArray) : IsReceiveOf(eventsArray[i], doorId)}
      nulls == {i \in 1..Len(eventsArray) : eventsArray[i].kind = "null"}
  IN IF \E n \in nulls : \A m \in hits : n < m THEN "throw"
     ELSE IF hits # {} THEN "true"
     ELSE "false"

\* hasDoorAcknowledgment comparing the entry with true instead of 'ok'
hasDoorAcknowledgmentTrue(parsedHandshake, doorId) ==
  doorId \in DOMAIN parsedHandshake /\ parsedHandshake[doorId] = "true"

\* hasDoorAcknowledgment
hasDoorAcknowledgment(parsedHandshake, doorId) ==
  doorId \in DOMAIN parsedHandshake /\ parsedHandshake[doorId] = "ok"

----------------------------------------------------------------------------
(* State *)

VARIABLES
  isReady,         \* DatabaseService._isReady
  isInitializing,  \* DatabaseService._isInitializing
  currentDoorId,   \* DatabaseService._currentDoorId
  initState,       \* last value of DatabaseService.initState$
  DB_INSTANCE,     \* door id of the database the module variable holds, or None
  initPc,          \* position of the initialize() call in flight
  initDoor,        \* its doorId argument
  inits,           \* number of initialize() calls that entered the try block
  txnRef,          \* transactionReplicationService: number of the call that built it, 0 = undefined
  hsRef,           \* handshakeReplicationService: likewise
  txnLive,         \* calls whose transaction replicationState is running
  hsLive,          \* calls whose handshake replicationState is running
  svcDoor,         \* the door whose database each call's services replicate into
  destroyPc,       \* position of the destroy() or stopReplication() call in flight
  openDbs,         \* calls whose database was created and has not been removed
  retryWait,       \* calls whose handshake replication waits retryTime after a failed pull
  stores,          \* per database name door-<id>: the persisted rows
  srv,             \* the rows the server holds for transaction T1
  prefClientId,    \* Preferences value under CLIENT_ID_KEY
  cachedId,        \* ClientIdentityService.cachedId
  h,               \* the handleReceivedReplication invocations
  now,             \* Date.now()
  call,            \* a call of a helper function: its name, argument and result
  access           \* HomePage.checkAccess: the call in flight, then accessResult

vars == <<isReady, isInitializing, currentDoorId, initState, DB_INSTANCE, initPc, initDoor,
          inits, txnRef, hsRef, txnLive, hsLive, svcDoor, destroyPc, openDbs, retryWait,
          stores, srv, prefClientId, cachedId, h, now, call, access>>

\* everything but the helper call
serviceVars == <<isReady, isInitializing, currentDoorId, initState, DB_INSTANCE, initPc,
                 initDoor, inits, txnRef, hsRef, txnLive, hsLive, svcDoor, destroyPc,
                 openDbs, retryWait, stores, srv, prefClientId, cachedId, h, now, access>>

lifecycleVars == <<isReady, isInitializing, currentDoorId, initState, DB_INSTANCE, initPc,
                   initDoor, inits, txnRef, hsRef, txnLive, hsLive, svcDoor, destroyPc,
                   openDbs, retryWait>>

Slots == 1..MaxHandlers

InitIds == 1..MaxInits

----------------------------------------------------------------------------
(* Rows *)

NoTxn == [present |-> FALSE, perm |-> PermStr(<<>>)]

TxnRow(perm) == [present |-> TRUE, perm |-> perm]

NoAcks == [d \in Doors |-> 0]

\* acks counts, per door, the reconciler writes this local row has taken
NoHs == [present |-> FALSE, handshake |-> <<>>, events |-> <<>>, client_updated_at |-> 0,
         rev |-> 0, acks |-> NoAcks]

HsRow(handshake, events) ==
  [present |-> TRUE, handshake |-> handshake, events |-> events, client_updated_at |-> 0,
   rev |-> 0, acks |-> NoAcks]

\* a database that holds no rows; epoch counts its removals
EmptyStore == [epoch |-> 0, txn |-> [t \in TxnIds |-> NoTxn], hs |-> [t \in TxnIds |-> NoHs]]

\* the rows the server may hold for a transaction and its handshake
SrvRow(perm, handshake, events) == [perm |-> perm, handshake |-> handshake, events |-> events]

\* the server row of Scenario 1: D1 and D2 permitted, handshake "{}", events "[]"
Scenario1 == SrvRow(PermArr(<<"D1", "D2">>), <<LB, RB>>, <<LSQ, RSQ>>)

EvD1 == Ev("RECEIVE", Actor("D1"), "SUCCESS", 0)

EvD2 == Ev("RECEIVE", Actor("D2"), "SUCCESS", 0)

ServerRows ==
  { \* nobody has acknowledged yet (Scenario 1)
    SrvRow(PermArr(<<"D1", "D2">>), <<LB, RB>>, <<LSQ, RSQ>>),
    \* door D2 has acknowledged; door_permission is a comma-joined string
    SrvRow(PermStr(<<"D1", ",", " ", "D2">>), <<LB, Mem("D2", "ok"), RB>>, <<LSQ, EvD2, RSQ>>),
    \* only D2 is permitted
    SrvRow(PermStr(<<"D2">>), <<LB, RB>>, <<LSQ, RSQ>>),
    \* door_permission is missing
    SrvRow(PermStr(<<>>), <<LB, RB>>, <<LSQ, RSQ>>),
    \* D1 has acknowledged: the event-log signal alone
    SrvRow(PermArr(<<"D1", "D2">>), <<LB, RB>>, <<LSQ, EvD2, COMMA, EvD1, RSQ>>),
    \* D1 has acknowledged: the map signal alone, in concatenated fragments
    SrvRow(PermArr(<<"D1", "D2">>),
           <<LB, Mem("D2", "ok"), RB, GARB, LB, Mem("D1", "ok"), RB>>, <<GARB>>),
    \* the events array holds a null
    SrvRow(PermArr(<<"D1", "D2">>), <<LB, RB>>, <<LSQ, NULL, RSQ>>),
    \* both fields as a door's own write leaves them, the handshake since emptied
    SrvRow(PermArr(<<"D1", "D2">>), <<>>, <<EvD1>>) }

----------------------------------------------------------------------------
(* Handler invocations *)

IdleH == [pc |-> "idle", sess |-> 0, tid |-> None, perm |-> PermStr(<<>>), clientId |-> None,
          db |-> None, epoch |-> 0, rev |-> 0, at |-> 0, outcome |-> "none"]

\* the invocation has returned (or its promise rejected): only the outcome remains
Done(outcome) == [IdleH EXCEPT !.pc = "done", !.outcome = outcome]

\* DatabaseService.db: throws unless a database is held and the session is ready
dbThrows == DB_INSTANCE = None \/ ~isReady

\* DatabaseService.awaitDbReady: the await completes and leaves the state as it is
awaitDbReady == TRUE

\* the door id getClientId() would return now
identityNow == IF cachedId # None THEN cachedId ELSE prefClientId

\* a record for tid, handled now, would find its rows, be authorized and unacknowledged
Eligible(tid) ==
  /\ tid \in TxnIds /\ DB_INSTANCE # None /\ identityNow # None
  /\ LET st == stores[DB_INSTANCE] IN
       /\ st.txn[tid].present /\ st.hs[tid].present
       /\ validateDoorPermission(st.txn[tid].perm, identityNow)
       /\ hasReceiveEvent(parseEventsArray(st.hs[tid].events), identityNow) = "false"
       /\ ~hasDoorAcknowledgment(parseHandshakeField(st.hs[tid].handshake), identityNow)

----------------------------------------------------------------------------
(* Initial state: the service is constructed, nothing is open; the server's rows
   and the stored client id are whatever an earlier run left *)

\* no checkAccess call has been made
NoAccess ==
  [pc |-> "idle", doorId |-> None, db |-> None, epoch |-> 0, student |-> None,
   status |-> "none", hasAccess |-> FALSE]

ServiceInit ==
  /\ isReady = FALSE
  /\ isInitializing = FALSE
  /\ currentDoorId = None
  /\ initState = "idle"
  /\ DB_INSTANCE = None
  /\ initPc = "idle"
  /\ initDoor = None
  /\ inits = 0
  /\ txnRef = 0
  /\ hsRef = 0
  /\ txnLive = {}
  /\ hsLive = {}
  /\ svcDoor = [k \in InitIds |-> None]
  /\ destroyPc = "idle"
  /\ openDbs = {}
  /\ retryWait = {}
  /\ stores = [d \in Doors |-> EmptyStore]
  /\ prefClientId = None
  /\ cachedId = None
  /\ h = [s \in Slots |-> IdleH]
  /\ now = 1
  /\ access = NoAccess

\* no helper call is being looked at
NoCall == [fn |-> "none", arg |-> <<>>, done |-> FALSE, res |-> <<>>]

Init ==
  /\ ServiceInit
  /\ srv \in ServerRows
  /\ call = NoCall

----------------------------------------------------------------------------
(* ClientIdentityService *)

\* setClientId: Preferences.set; cachedId is not touched
SetClientId(d) ==
  /\ prefClientId = None
  /\ initPc = "idle" /\ destroyPc = "idle"
  /\ prefClientId' = d
  /\ UNCHANGED <<lifecycleVars, stores, srv, access, call, cachedId, h, now>>

\* removeClientId: Preferences.remove; cachedId is not touched
RemoveClientId ==
  /\ prefClientId # None
  /\ ~isReady /\ initPc = "idle" /\ destroyPc = "idle"
  /\ prefClientId' = None
  /\ UNCHANGED <<lifecycleVars, stores, srv, access, call, cachedId, h, now>>

----------------------------------------------------------------------------
(* DatabaseService.initialize *)

\* the checks at the head of initialize without the _isInitializing check
initializeEntryNoGate(doorId) ==
  IF isReady /\ currentDoorId = doorId THEN "return" ELSE "proceed"

\* the checks at the head of initialize without the same-door check
initializeEntryNoFastPath(doorId) ==
  IF isInitializing THEN "throw" ELSE "proceed"

\* the two checks at the head of initialize
initializeEntry(doorId) ==
  IF isInitializing THEN "throw"
  ELSE IF isReady /\ currentDoorId = doorId THEN "return"
  ELSE "proceed"

\* initialize throws 'Database initialization already in progress'
InitializeThrows(doorId) ==
  /\ initializeEntry(doorId) = "throw"
  /\ UNCHANGED vars

\* initialize returns at once: already initialized with the same door
InitializeReturns(doorId) ==
  /\ initializeEntry(doorId) = "return"
  /\ UNCHANGED vars

\* the checks pass: _isInitializing = true and initState$.next('initializing').  The
\* callers await destroy() before they call initialize(), and outside a Ready session
\* they initialize the door they have stored as the client id
InitStart(doorId) ==
  /\ initializeEntry(doorId) = "proceed"
  /\ destroyPc = "idle"
  /\ doorId = prefClientId \/ initState = "ready"
  /\ inits < MaxInits
  /\ isInitializing' = TRUE
  /\ initState' = "initializing"
  /\ initPc' = "create"
  /\ initDoor' = doorId
  /\ inits' = inits + 1
  /\ svcDoor' = [svcDoor EXCEPT ![inits + 1] = doorId]
  /\ UNCHANGED <<isReady, currentDoorId, DB_INSTANCE, txnRef, hsRef, txnLive, hsLive,
                 destroyPc, openDbs, retryWait, stores, srv, access, call, prefClientId, cachedId, h, now>>

\* _create: createRxDatabase resolves with an open database; it rejects while a
\* database of the same name is open in the process
InitCreate ==
  /\ initPc = "create"
  /\ \A k \in openDbs : svcDoor[k] # initDoor
  /\ openDbs' = openDbs \cup {inits}
  /\ initPc' = "collections"
  /\ UNCHANGED <<isReady, isInitializing, currentDoorId, initState, DB_INSTANCE, initDoor,
                 inits, txnRef, hsRef, txnLive, hsLive, svcDoor, destroyPc, retryWait,
                 stores, srv, access, call, prefClientId, cachedId, h, now>>

\* addCollections resolves and _create returns: DB_INSTANCE = db, the two services are
\* built and set
InitCollections ==
  /\ initPc = "collections"
  /\ DB_INSTANCE' = initDoor
  /\ txnRef' = inits
  /\ hsRef' = inits
  /\ initPc' = "regTxn"
  /\ UNCHANGED <<isReady, isInitializing, currentDoorId, initState, initDoor, inits, txnLive,
                 hsLive, svcDoor, destroyPc, openDbs, retryWait, stores, srv, access, call,
                 prefClientId, cachedId, h, now>>

\* transactionReplicationService.register_replication resolves; online, its
\* replicationState runs from here on
InitRegTxn ==
  /\ initPc = "regTxn"
  /\ \E online \in BOOLEAN : txnLive' = IF online THEN txnLive \cup {inits} ELSE txnLive
  /\ initPc' = "regHs"
  /\ UNCHANGED <<isReady, isInitializing, currentDoorId, initState, DB_INSTANCE, initDoor,
                 inits, txnRef, hsRef, hsLive, svcDoor, destroyPc, openDbs, retryWait,
                 stores, srv, access, call, prefClientId, cachedId, h, now>>

\* lines 277-280 and the finally block
MarkReady ==
  /\ isReady' = TRUE
  /\ currentDoorId' = initDoor
  /\ initState' = "ready"
  /\ isInitializing' = FALSE
  /\ initPc' = "idle"

\* setupReplication without the connectivity check
setupReplicationUnchecked(online) == "replicationState"

\* what setupReplication returns: undefined when networkStatus.isOnline() is false,
\* else the replicationState it builds
setupReplication(online) == IF ~online THEN "undefined" ELSE "replicationState"

\* handshake register_replication: offline, setupReplication returns undefined and
\* initialize goes on to mark the session ready; online it builds replicationState,
\* subscribes received$ and awaits the initial replication
InitRegHs(online) ==
  /\ initPc = "regHs"
  /\ IF setupReplication(online) = "undefined"
     THEN /\ MarkReady
          /\ UNCHANGED hsLive
     ELSE /\ hsLive' = hsLive \cup {inits}
          /\ initPc' = "awaitHs"
          /\ UNCHANGED <<isReady, isInitializing, currentDoorId, initState>>
  /\ UNCHANGED <<DB_INSTANCE, initDoor, inits, txnRef, hsRef, txnLive, svcDoor, destroyPc,
                 openDbs, retryWait, stores, srv, access, call, prefClientId, cachedId, h, now>>

\* the first pull cycle has brought every handshake row of the server into the store
initialReplicationDone(k) ==
  /\ k \notin retryWait
  /\ \A t \in TxnIds : stores[svcDoor[k]].hs[t].present

\* awaitInitialReplication resolves
InitReady ==
  /\ initPc = "awaitHs"
  /\ initialReplicationDone(inits)
  /\ MarkReady
  /\ UNCHANGED <<DB_INSTANCE, initDoor, inits, txnRef, hsRef, txnLive, hsLive, svcDoor,
                 destroyPc, openDbs, retryWait, stores, srv, access, call, prefClientId, cachedId,
                 h, now>>

\* an awaited step rejects: the catch block and the finally block
InitFail ==
  /\ initPc \in {"create", "collections", "regTxn", "regHs", "awaitHs"}
  /\ isReady' = FALSE
  /\ currentDoorId' = None
  /\ initState' = "error"
  /\ isInitializing' = FALSE
  /\ initPc' = "idle"
  /\ UNCHANGED <<DB_INSTANCE, initDoor, inits, txnRef, hsRef, txnLive, hsLive, svcDoor,
                 destroyPc, openDbs, retryWait, stores, srv, access, call, prefClientId, cachedId,
                 h, now>>

----------------------------------------------------------------------------
(* DatabaseService.destroy *)

\* the two checks at the head of destroy
destroyEntry ==
  IF ~isReady THEN "return"
  ELSE IF isInitializing THEN "throw"
  ELSE "proceed"

\* destroy returns at once: 'Database not initialized, nothing to destroy'
DestroyReturns ==
  /\ destroyEntry = "return"
  /\ UNCHANGED vars

\* destroy throws 'Cannot destroy database while initializing'
DestroyThrows ==
  /\ destroyEntry = "throw"
  /\ UNCHANGED vars

\* the checks pass; stopReplication() stops the transaction service first
destroyStops ==
  /\ destroyPc = "idle"
  /\ destroyEntry = "proceed"
  /\ txnLive' = txnLive \ {txnRef}
  /\ destroyPc' = "stopHs"
  /\ UNCHANGED <<isReady, isInitializing, currentDoorId, initState, DB_INSTANCE, initPc,
                 initDoor, inits, txnRef, hsRef, hsLive, svcDoor, openDbs, retryWait,
                 stores, srv, access, prefClientId, cachedId, h, now>>

DestroyStart == destroyStops /\ UNCHANGED call

\* stopReplication() leaving the handshake service running
DestroyStopHsSkipped ==
  /\ destroyPc = "stopHs"
  /\ destroyPc' = "grace"
  /\ UNCHANGED <<isReady, isInitializing, currentDoorId, initState, DB_INSTANCE, initPc,
                 initDoor, inits, txnRef, hsRef, txnLive, hsLive, svcDoor, openDbs,
                 retryWait, stores, srv, access, call, prefClientId, cachedId, h, now>>

\* stopReplication() then stops the handshake service
DestroyStopHs ==
  /\ destroyPc = "stopHs"
  /\ hsLive' = hsLive \ {hsRef}
  /\ retryWait' = retryWait \ {hsRef}
  /\ destroyPc' = "grace"
  /\ UNCHANGED <<isReady, isInitializing, currentDoorId, initState, DB_INSTANCE, initPc,
                 initDoor, inits, txnRef, hsRef, txnLive, svcDoor, openDbs, stores,
                 srv, access, call, prefClientId, cachedId, h, now>>

\* after the 500 ms: DB_INSTANCE.remove(), then the reset
destroyResets ==
  /\ destroyPc = "grace"
  /\ stores' = IF DB_INSTANCE = None THEN stores
               ELSE [stores EXCEPT ![DB_INSTANCE] =
                       [EmptyStore EXCEPT !.epoch = stores[DB_INSTANCE].epoch + 1]]
  /\ openDbs' = IF DB_INSTANCE = None THEN openDbs ELSE openDbs \ {txnRef}
  /\ DB_INSTANCE' = None
  /\ isReady' = FALSE
  /\ currentDoorId' = None
  /\ initState' = "idle"
  /\ destroyPc' = "idle"
  /\ UNCHANGED <<isInitializing, initPc, initDoor, inits, txnRef, hsRef, txnLive, hsLive,
                 svcDoor, retryWait, srv, access, prefClientId, cachedId, h, now>>

DestroyRemove == destroyResets /\ UNCHANGED call

\* DB_INSTANCE.remove() rejects: the error is re-thrown, nothing is reset
destroyRethrows ==
  /\ destroyPc = "grace"
  /\ destroyPc' = "idle"
  /\ UNCHANGED <<isReady, isInitializing, currentDoorId, initState, DB_INSTANCE, initPc,
                 initDoor, inits, txnRef, hsRef, txnLive, hsLive, svcDoor, openDbs,
                 retryWait, stores, srv, access, prefClientId, cachedId, h, now>>

DestroyFail == destroyRethrows /\ UNCHANGED call

----------------------------------------------------------------------------
(* DatabaseService.stopReplication, called on its own (AppComponent.ngOnDestroy) *)

\* a replication service's own stopReplication(): the running replication of the
\* service, if there is one, is cancelled; it returns without raising when there is none
serviceStopReplication(live, ref) == live \ {ref}

\* stopReplication() that also resets the session, as destroy() does
StopReplicationStartResetting ==
  /\ destroyPc = "idle"
  /\ txnLive' = serviceStopReplication(txnLive, txnRef)
  /\ isReady' = FALSE
  /\ currentDoorId' = None
  /\ initState' = "idle"
  /\ destroyPc' = "stopOnly"
  /\ UNCHANGED <<isInitializing, DB_INSTANCE, initPc, initDoor, inits, txnRef, hsRef, hsLive,
                 svcDoor, openDbs, retryWait, stores, srv, access, call, prefClientId, cachedId, h, now>>

\* the call enters in whatever state the service is in; the transaction service, if
\* one is set, is stopped first
StopReplicationStart ==
  /\ destroyPc = "idle"
  /\ txnLive' = serviceStopReplication(txnLive, txnRef)
  /\ destroyPc' = "stopOnly"
  /\ UNCHANGED <<isReady, isInitializing, currentDoorId, initState, DB_INSTANCE, initPc,
                 initDoor, inits, txnRef, hsRef, hsLive, svcDoor, openDbs, retryWait,
                 stores, srv, access, call, prefClientId, cachedId, h, now>>

\* then the handshake service, if one is set, and the call returns
StopReplicationHs ==
  /\ destroyPc = "stopOnly"
  /\ hsLive' = serviceStopReplication(hsLive, hsRef)
  /\ retryWait' = serviceStopReplication(retryWait, hsRef)
  /\ destroyPc' = "idle"
  /\ UNCHANGED <<isReady, isInitializing, currentDoorId, initState, DB_INSTANCE, initPc,
                 initDoor, inits, txnRef, hsRef, txnLive, svcDoor, openDbs, stores,
                 srv, access, call, prefClientId, cachedId, h, now>>

----------------------------------------------------------------------------
(* DatabaseService.getOnlineStatus *)

\* service?.getOnlineStatus(): "undefined" when the service field is unset, else the
\* service's last-known connectivity flag
ServiceStatus == {"undefined", "true", "false"}

\* x ?? false
OrFalse(x) == x = "true"

\* getOnlineStatus joining the two flags with &&
getOnlineStatusBoth(txnStatus, handshakeStatus) == OrFalse(txnStatus) /\ OrFalse(handshakeStatus)

\* getOnlineStatus
getOnlineStatus(txnStatus, handshakeStatus) == OrFalse(txnStatus) \/ OrFalse(handshakeStatus)

----------------------------------------------------------------------------
(* push.queryBuilder of the handshake replication *)

\* docRow.assumedMasterState: the property is absent, null, or a document
MasterStates == {"undefined", "null", "doc"}

\* the write rows built from a batch: deleted is assumedMasterState === null
queryBuilder(docs) ==
  [i \in 1..Len(docs) |->
     [newDocumentState |-> [id |-> docs[i].newDocumentState.id,
                            deleted |-> docs[i].assumedMasterState = "null"]]]

----------------------------------------------------------------------------
(* HandshakeReplicationService: the pull options *)

\* JavaScript values a checkpoint or a response is made of
Undefined == [t |-> "undefined"]

Str(v) == [t |-> "string", v |-> v]

Arr(v) == [t |-> "array", v |-> v]

Checkpoint(id, server_updated_at) ==
  [t |-> "object", id |-> id, server_updated_at |-> server_updated_at]

\* x || d
OrElse(x, d) == IF x = Undefined \/ x = Str("") THEN d ELSE x

\* pull.queryBuilder: the variables of the pull request, from checkpoint?.id || '',
\* checkpoint?.server_updated_at || '0' and limit || 10 (limit 0 standing for a
\* missing limit)
pullQueryBuilder(checkpoint, limit) ==
  LET id == IF checkpoint = Undefined THEN Undefined ELSE checkpoint.id
      server_updated_at ==
        IF checkpoint = Undefined THEN Undefined ELSE checkpoint.server_updated_at
  IN [t |-> "request",
      checkpoint |-> Checkpoint(OrElse(id, Str("")), OrElse(server_updated_at, Str("0"))),
      limit |-> IF limit = 0 THEN 10 ELSE limit]

\* a response body: documents and checkpoint, either of them possibly missing
PullData(documents, checkpoint) ==
  [t |-> "object", pullHandshake |-> Undefined, streamHandshake |-> Undefined,
   documents |-> documents, checkpoint |-> checkpoint]

\* the body under the key pullHandshake or streamHandshake
Under(key, data) ==
  [[t |-> "object", pullHandshake |-> Undefined, streamHandshake |-> Undefined,
    documents |-> Undefined, checkpoint |-> Undefined] EXCEPT ![key] = data]

\* pull.responseModifier
responseModifier(plainResponse) ==
  LET pullData == IF plainResponse.pullHandshake # Undefined
                  THEN plainResponse.pullHandshake
                  ELSE IF plainResponse.streamHandshake # Undefined
                  THEN plainResponse.streamHandshake
                  ELSE plainResponse
  IN [documents |-> IF pullData.documents = Undefined THEN Arr(<<>>)
                    ELSE pullData.documents,
      checkpoint |-> pullData.checkpoint]

----------------------------------------------------------------------------
(* Replication: rows arrive from the server, received$ emits *)

\* the transaction replication writes a pulled transaction into its collection
PullTxn(t) ==
  /\ \E k \in txnLive :
       /\ ~stores[svcDoor[k]].txn[t].present
       /\ stores' = [stores EXCEPT ![svcDoor[k]].txn[t] = TxnRow(srv.perm)]
  /\ UNCHANGED <<lifecycleVars, srv, access, call, prefClientId, cachedId, h, now>>

\* a pull of the initial handshake replication fails: it waits retryTime
PullFail(k) ==
  /\ k \in hsLive \ retryWait
  /\ initPc = "awaitHs" /\ k = inits
  /\ \E t \in TxnIds : ~stores[svcDoor[k]].hs[t].present
  /\ retryWait' = retryWait \cup {k}
  /\ UNCHANGED <<isReady, isInitializing, currentDoorId, initState, DB_INSTANCE, initPc,
                 initDoor, inits, txnRef, hsRef, txnLive, hsLive, svcDoor, destroyPc,
                 openDbs, stores, srv, access, call, prefClientId, cachedId, h, now>>

\* retryTime has passed: the pull is attempted again
RetryPull(k) ==
  /\ k \in retryWait
  /\ retryWait' = retryWait \ {k}
  /\ UNCHANGED <<isReady, isInitializing, currentDoorId, initState, DB_INSTANCE, initPc,
                 initDoor, inits, txnRef, hsRef, txnLive, hsLive, svcDoor, destroyPc,
                 openDbs, stores, srv, access, call, prefClientId, cachedId, h, now>>

\* the handshake replication writes a pulled handshake into its collection
PullHandshake(t) ==
  /\ \E k \in hsLive \ retryWait :
       /\ ~stores[svcDoor[k]].hs[t].present
       /\ stores' = [stores EXCEPT ![svcDoor[k]].hs[t] = HsRow(srv.handshake, srv.events)]
  /\ UNCHANGED <<lifecycleVars, srv, access, call, prefClientId, cachedId, h, now>>

----------------------------------------------------------------------------
(* HandshakeReplicationService.handleReceivedReplication *)

\* txn.findOne(...).exec() on the held database
findTransaction(tid) ==
  IF tid \in TxnIds THEN stores[DB_INSTANCE].txn[tid] ELSE NoTxn

\* handshake.findOne(...).exec() on the held database
findHandshake(tid) ==
  IF tid \in TxnIds THEN stores[DB_INSTANCE].hs[tid] ELSE NoHs

\* received$ emits a record; the handler runs up to its first await
Deliver(s, tid) ==
  /\ h[s].pc = "idle"
  /\ \A r \in Slots : r < s => h[r].pc # "idle"
  /\ \E k \in hsLive :
       h' = [h EXCEPT ![s] = IF tid = None THEN Done("dropped")
                             ELSE [IdleH EXCEPT !.pc = "findTxn", !.sess = k, !.tid = tid]]
  /\ UNCHANGED <<lifecycleVars, stores, srv, access, call, prefClientId, cachedId, now>>

\* findTransactionForReceived: every throw inside it is caught and gives null
FindTransaction(s) ==
  /\ h[s].pc = "findTxn"
  /\ awaitDbReady
  /\ \E lookupOk \in BOOLEAN :
       h' = [h EXCEPT ![s] =
               IF dbThrows \/ ~findTransaction(h[s].tid).present THEN Done("dropped")
               ELSE IF ~lookupOk THEN Done("lookupFailed")
               ELSE [h[s] EXCEPT !.pc = "getClientId",
                                 !.perm = findTransaction(h[s].tid).perm]]
  /\ UNCHANGED <<lifecycleVars, stores, srv, access, call, prefClientId, cachedId, now>>

\* getClientId() resolves (or rejects: nothing catches it), then validateDoorPermission
GetClientId(s) ==
  /\ h[s].pc = "getClientId"
  /\ \E prefOk \in BOOLEAN :
       LET clientId == identityNow IN
       IF cachedId = None /\ ~prefOk
       THEN /\ h' = [h EXCEPT ![s] = Done("rejected")]
            /\ UNCHANGED cachedId
       ELSE /\ cachedId' = clientId
            /\ h' = [h EXCEPT ![s] =
                       IF clientId = None \/ ~validateDoorPermission(h[s].perm, clientId)
                       THEN Done("dropped")
                       ELSE [h[s] EXCEPT !.pc = "findHs", !.clientId = clientId]]
  /\ UNCHANGED <<lifecycleVars, stores, srv, access, call, prefClientId, now>>

\* $set.handshake of updateHandshake
newHandshake(doc, doorId) == StringifyAck(doorId)

\* the new event concatenated to the stored events text
newEventConcat(doc, doorId, at) == doc.events \o StringifyEvent(doorId, at)

\* $set.events of updateHandshake
newEvent(doc, doorId, at) == StringifyEvent(doorId, at)

\* findHandshakeDoc resolves; the checks of lines 569-573 run on the document found and
\* updateHandshake issues handshake.update() on it
FindHandshakeDoc(s) ==
  /\ h[s].pc = "findHs"
  /\ \E lookupOk \in BOOLEAN :
       IF dbThrows \/ ~findHandshake(h[s].tid).present
       THEN /\ h' = [h EXCEPT ![s] = Done("dropped")]
            /\ UNCHANGED now
       ELSE IF ~lookupOk
       THEN /\ h' = [h EXCEPT ![s] = Done("lookupFailed")]
            /\ UNCHANGED now
       ELSE LET doc == findHandshake(h[s].tid)
                seen == hasReceiveEvent(parseEventsArray(doc.events), h[s].clientId)
            IN IF seen = "throw"
               THEN /\ h' = [h EXCEPT ![s] = Done("rejected")]
                    /\ UNCHANGED now
               ELSE IF seen = "true"
                       \/ hasDoorAcknowledgment(parseHandshakeField(doc.handshake), h[s].clientId)
               THEN /\ h' = [h EXCEPT ![s] = Done("skipped")]
                    /\ UNCHANGED now
               ELSE /\ h' = [h EXCEPT ![s] = [h[s] EXCEPT !.pc = "update", !.db = DB_INSTANCE,
                                                !.epoch = stores[DB_INSTANCE].epoch,
                                                !.rev = doc.rev, !.at = now]]
                    /\ now' = now + 1
  /\ UNCHANGED <<lifecycleVars, stores, srv, access, call, prefClientId, cachedId>>

\* the row after handshake.update({ $set: { handshake, events, client_updated_at } })
updatedRow(doc, doorId, at) ==
  [doc EXCEPT !.handshake = newHandshake(doc, doorId),
              !.events = newEvent(doc, doorId, at),
              !.client_updated_at = at,
              !.rev = doc.rev + 1,
              !.acks = [doc.acks EXCEPT ![doorId] = doc.acks[doorId] + 1]]

\* canWrite without the revision comparison: the last writer wins
canWriteAnyRevision(hs) ==
  /\ stores[hs.db].epoch = hs.epoch
  /\ stores[hs.db].hs[hs.tid].present

\* the document the handler holds is still the stored revision of an existing database
canWrite(hs) ==
  /\ stores[hs.db].epoch = hs.epoch
  /\ stores[hs.db].hs[hs.tid].present
  /\ stores[hs.db].hs[hs.tid].rev = hs.rev

\* updateHandshake without its try/catch: the error of handshake.update() reaches
\* the caller and rejects the handler's promise
UpdateHandshakeUncaught(s) ==
  /\ h[s].pc = "update"
  /\ \E storageOk \in BOOLEAN :
       IF storageOk /\ canWrite(h[s])
       THEN /\ stores' = [stores EXCEPT ![h[s].db].hs[h[s].tid] =
                            updatedRow(stores[h[s].db].hs[h[s].tid], h[s].clientId, h[s].at)]
            /\ h' = [h EXCEPT ![s] = Done("written")]
       ELSE /\ h' = [h EXCEPT ![s] = Done("rejected")]
            /\ UNCHANGED stores
  /\ UNCHANGED <<lifecycleVars, srv, access, call, prefClientId, cachedId, now>>

\* handshake.update() settles: the write is stored, or it throws (storage failure,
\* revision conflict, database removed) and updateHandshake logs the error
UpdateHandshake(s) ==
  /\ h[s].pc = "update"
  /\ \E storageOk \in BOOLEAN :
       IF storageOk /\ canWrite(h[s])
       THEN /\ stores' = [stores EXCEPT ![h[s].db].hs[h[s].tid] =
                            updatedRow(stores[h[s].db].hs[h[s].tid], h[s].clientId, h[s].at)]
            /\ h' = [h EXCEPT ![s] = Done("written")]
       ELSE /\ h' = [h EXCEPT ![s] = Done("writeFailed")]
            /\ UNCHANGED stores
  /\ UNCHANGED <<lifecycleVars, srv, access, call, prefClientId, cachedId, now>>

----------------------------------------------------------------------------
(* Specification *)

Next ==
  \/ \E d \in Doors : SetClientId(d)
  \/ RemoveClientId
  \/ \E d \in Doors : InitializeThrows(d)
  \/ \E d \in Doors : InitializeReturns(d)
  \/ \E d \in Doors : InitStart(d)
  \/ InitCreate
  \/ InitCollections
  \/ InitRegTxn
  \/ \E online \in BOOLEAN : InitRegHs(online)
  \/ InitReady
  \/ InitFail
  \/ DestroyReturns
  \/ DestroyThrows
  \/ DestroyStart
  \/ DestroyStopHs
  \/ DestroyRemove
  \/ DestroyFail
  \/ \E t \in TxnIds : PullTxn(t)
  \/ \E t \in TxnIds : PullHandshake(t)
  \/ \E k \in InitIds : PullFail(k)
  \/ \E k \in InitIds : RetryPull(k)
  \/ \E s \in Slots, tid \in ReceivedIds : Deliver(s, tid)
  \/ \E s \in Slots : FindTransaction(s)
  \/ \E s \in Slots : GetClientId(s)
  \/ \E s \in Slots : FindHandshakeDoc(s)
  \/ \E s \in Slots : UpdateHandshake(s)

Spec == Init /\ [][Next]_vars

\* the stored client id, the lifecycle and the replication pulls alone
LifecycleNext ==
  \/ \E d \in Doors : SetClientId(d)
  \/ RemoveClientId
  \/ \E d \in Doors : InitStart(d)
  \/ InitCreate
  \/ InitCollections
  \/ InitRegTxn
  \/ \E online \in BOOLEAN : InitRegHs(online)
  \/ InitReady
  \/ InitFail
  \/ DestroyStart
  \/ DestroyStopHs
  \/ DestroyRemove
  \/ DestroyFail
  \/ \E t \in TxnIds : PullTxn(t)
  \/ \E t \in TxnIds : PullHandshake(t)
  \/ \E k \in InitIds : PullFail(k)
  \/ \E k \in InitIds : RetryPull(k)

\* the same with stopReplication() also called on its own
LifecycleStopNext ==
  \/ LifecycleNext
  \/ StopReplicationStart
  \/ StopReplicationHs

LifecycleSpec == Init /\ [][LifecycleStopNext]_vars

----------------------------------------------------------------------------
(* HomePage.performDoorChange *)

\* where a performDoorChange call stands, and how its destroy() call has settled
DoorChange(stage, destroyed) ==
  [fn |-> "performDoorChange", arg |-> stage, done |-> stage \in {"alert", "dismissed"},
   res |-> destroyed]

AtStage(stage) == call.fn = "performDoorChange" /\ call.arg = stage

\* the loading overlay of performDoorChange (backdropDismiss: false) is up, from line
\* 146 to line 162: the pages take no input
Overlay == AtStage("loading") \/ AtStage("destroying") \/ AtStage("remove")

\* the user confirms the door change: the loading overlay is created and presented
DoorChangeStart ==
  /\ call.fn = "none" \/ call.done
  /\ call' = DoorChange("loading", "notCalled")
  /\ UNCHANGED serviceVars

\* lines 149-155: throw when the database is initializing, else call destroy(), which
\* returns at once when the session is not ready
DoorChangeDestroy ==
  /\ AtStage("loading")
  /\ IF isInitializing
     THEN /\ call' = DoorChange("alert", "initializing")
          /\ UNCHANGED serviceVars
     ELSE IF destroyEntry = "return"
     THEN /\ call' = DoorChange("remove", "resolved")
          /\ UNCHANGED serviceVars
     ELSE /\ destroyStops
          /\ call' = DoorChange("destroying", "pending")

\* destroy() resolves and the code after the await takes over
DoorChangeDestroyed ==
  /\ AtStage("destroying")
  /\ destroyResets
  /\ call' = DoorChange("remove", "resolved")

\* a catch block that goes on to the removal after destroy() has thrown
DoorChangeDestroyFailedGoesOn ==
  /\ AtStage("destroying")
  /\ destroyRethrows
  /\ call' = DoorChange("remove", "rejected")

\* destroy() throws: the catch block dismisses the overlay and presents the alert
DoorChangeDestroyFailed ==
  /\ AtStage("destroying")
  /\ destroyRethrows
  /\ call' = DoorChange("alert", "rejected")

\* removeClientId(): Preferences.remove removes the stored id, or fails and false is
\* returned
removeClientId(ok) == IF ok THEN None ELSE prefClientId

\* line 158, whose result is not looked at, then the overlay is dismissed and the
\* door-selection modal is created and presented
DoorChangeRemove ==
  /\ AtStage("remove")
  /\ \E ok \in BOOLEAN : prefClientId' = removeClientId(ok)
  /\ call' = DoorChange("modal", call.res)
  /\ UNCHANGED <<lifecycleVars, stores, srv, access, cachedId, h, now>>

\* the modal is dismissed after its confirmSelection has initialized the database
DoorChangeDismissed ==
  /\ AtStage("modal")
  /\ isReady /\ ~isInitializing
  /\ call' = DoorChange("dismissed", call.res)
  /\ UNCHANGED serviceVars

\* the lifecycle as the pages drive it: the door is changed by performDoorChange
\* only, and initialize is called at startup and by the door-selection modal, which
\* is presented when no session is ready
DoorChangeNext ==
  \/ \E d \in Doors : ~Overlay /\ SetClientId(d)
  \/ \E d \in Doors : ~Overlay /\ ~isReady /\ InitStart(d)
  \/ InitCreate
  \/ InitCollections
  \/ InitRegTxn
  \/ \E online \in BOOLEAN : InitRegHs(online)
  \/ InitReady
  \/ InitFail
  \/ \E t \in TxnIds : PullTxn(t)
  \/ \E t \in TxnIds : PullHandshake(t)
  \/ \E k \in InitIds : PullFail(k)
  \/ \E k \in InitIds : RetryPull(k)
  \/ DoorChangeStart
  \/ DoorChangeDestroy
  \/ DestroyStopHs
  \/ DoorChangeDestroyed
  \/ DoorChangeDestroyFailed
  \/ DoorChangeRemove
  \/ DoorChangeDismissed

DoorChangeSpec == Init /\ [][DoorChangeNext]_vars

----------------------------------------------------------------------------
(* HomePage.checkAccess *)

\* accessResult is set: hasAccess, for the student and the status the decision read
Shown(hasAccess, student, status) ==
  [NoAccess EXCEPT !.pc = "shown", !.hasAccess = hasAccess, !.student = student,
                   !.status = status]

\* lines 301-305: the normalized door_permission includes currentDoorId.  A missing
\* door_permission throws at split, which the catch block turns into hasAccess false,
\* the answer the empty list gives
hasDoorPermission(perm, doorId) ==
  \E i \in 1..Len(doorPermissions(perm)) : doorPermissions(perm)[i] = <<doorId>>

\* lines 245-259: a blank student number returns at once; else the result is cleared.
\* The page takes the input when neither the overlay nor the modal covers it
CheckAccessStart ==
  /\ access.pc \in {"idle", "shown"}
  /\ ~Overlay /\ ~AtStage("modal")
  /\ \E blank \in BOOLEAN :
       access' = IF blank THEN access ELSE [NoAccess EXCEPT !.pc = "getClientId"]
  /\ UNCHANGED <<lifecycleVars, stores, srv, prefClientId, cachedId, h, now, call>>

\* getClientId() settles; lines 262-279 and the db getter of line 282 run on its
\* result, and the findOne query is issued
CheckAccessGetClientId ==
  /\ access.pc = "getClientId"
  /\ \E prefOk \in BOOLEAN :
       IF cachedId = None /\ ~prefOk
       THEN /\ access' = Shown(FALSE, None, "none")
            /\ UNCHANGED cachedId
       ELSE /\ cachedId' = identityNow
            /\ access' = IF identityNow = None \/ ~isReady \/ dbThrows
                         THEN Shown(FALSE, None, "none")
                         ELSE [access EXCEPT !.pc = "findOne", !.doorId = identityNow,
                                             !.db = DB_INSTANCE,
                                             !.epoch = stores[DB_INSTANCE].epoch]
  /\ UNCHANGED <<lifecycleVars, stores, srv, prefClientId, h, now, call>>

\* the query settles: it throws (storage failure, database removed), finds no row
\* for the student number entered, or finds the row; lines 290-339
CheckAccessFindOne ==
  /\ access.pc = "findOne"
  /\ \E student \in TxnIds \cup {None}, findOk \in BOOLEAN, status \in {"IN", "OUT"} :
       access' =
         IF ~findOk \/ stores[access.db].epoch # access.epoch
         THEN Shown(FALSE, student, "none")
         ELSE IF student = None \/ ~stores[access.db].txn[student].present
         THEN Shown(FALSE, student, "none")
         ELSE Shown(status = "IN"
                    /\ hasDoorPermission(stores[access.db].txn[student].perm, access.doorId),
                    student, status)
  /\ UNCHANGED <<lifecycleVars, stores, srv, prefClientId, cachedId, h, now, call>>

\* the pages: door selection, door change and access checks
AccessNext ==
  \/ DoorChangeNext
  \/ CheckAccessStart
  \/ CheckAccessGetClientId
  \/ CheckAccessFindOne

AccessSpec == Init /\ [][AccessNext]_vars

\* an awaited step of initialize settles: it resolves, or it rejects where it can
\* (awaitInitialReplication does not reject on a failed pull)
InitSettles ==
  \/ InitCreate
  \/ InitCollections
  \/ InitRegTxn
  \/ \E online \in BOOLEAN : InitRegHs(online)
  \/ InitReady
  \/ initPc # "awaitHs" /\ InitFail

\* a pull of the handshake replication settles: rows arrive, or it fails
PullSettles ==
  \/ \E t \in TxnIds : PullHandshake(t)
  \/ \E k \in InitIds : PullFail(k)

\* every store and network operation completes or fails, and every retry timer fires
LiveSpec ==
  /\ Init
  /\ [][LifecycleNext]_vars
  /\ WF_vars(InitSettles)
  /\ WF_vars(PullSettles)
  /\ WF_vars(\E k \in InitIds : RetryPull(k))

----------------------------------------------------------------------------
(* The helper functions called on their own: each behaviour starts with one call
   pending on an argument and takes the step that returns its result *)

Pending(fn, arg) == [fn |-> fn, arg |-> arg, done |-> FALSE, res |-> <<>>]

\* handshake strings: every text of up to MaxStr pieces, and every concatenation of
\* three fragments
HandshakeToks ==
  {LB, RB, LSQ, RSQ, COMMA, GARB, Mem("D1", "ok"), Mem("D2", "ok"), Mem("D1", "no")}

Fragments ==
  {<<>>, <<LB>>, <<RB>>, <<GARB>>, <<COMMA>>, <<LB, Mem("D1", "ok"), RB>>,
   <<LB, Mem("D2", "ok"), RB>>, <<LB, Mem("D1", "no"), RB>>}

\* a call of fn is pending on a handshake string
PendingOnHandshake(fn) ==
  \/ \E k \in 0..MaxStr : \E a \in [1..k -> HandshakeToks] : call = Pending(fn, a)
  \/ \E a \in Fragments, b \in Fragments, c \in Fragments : call = Pending(fn, a \o b \o c)

\* events strings
EventToks == {LSQ, RSQ, COMMA, NULL, EvD1, EvD2, LB, RB, GARB}

\* door_permission: a list of door ids, and the same list joined by commas with or
\* without a blank before and after each id
Blanks == SUBSET {"before", "after"}

RECURSIVE Join(_, _, _)

Join(ids, pad, i) ==
  IF i > Len(ids) THEN <<>>
  ELSE (IF i > 1 THEN <<",">> ELSE <<>>)
       \o (IF "before" \in pad[i] THEN <<" ">> ELSE <<>>)
       \o <<ids[i]>>
       \o (IF "after" \in pad[i] THEN <<" ">> ELSE <<>>)
       \o Join(ids, pad, i + 1)

\* push batches
DocRows ==
  {[assumedMasterState |-> m, newDocumentState |-> [id |-> id]] :
     m \in MasterStates, id \in {"h1", "h2"}}

\* checkpoints: none known, or the one the server returned last
Checkpoints ==
  {Undefined} \cup {Checkpoint(id, at) : id \in {Str(""), Str("0"), Str("h7")},
                                         at \in {Str(""), Str("0"), Str("1700")}}

\* pull and stream responses and the bare body
Bodies ==
  {PullData(documents, checkpoint) :
     documents \in {Undefined, Arr(<<>>), Arr(<<"h1">>), Arr(<<"h1", "h2">>)},
     checkpoint \in Checkpoints}

Responses ==
  Bodies \cup {Under(key, data) : key \in {"pullHandshake", "streamHandshake"},
                                  data \in Bodies}

UtilInit ==
  /\ ServiceInit
  /\ srv = Scenario1
  /\ \/ \E t \in ServiceStatus, hs \in ServiceStatus :
          call = Pending("getOnlineStatus", [txnStatus |-> t, handshakeStatus |-> hs])
     \/ \E k \in 0..MaxBatch : \E docs \in [1..k -> DocRows] :
          call = Pending("queryBuilder", docs)
     \/ PendingOnHandshake("parseHandshakeField")
     \/ PendingOnHandshake("parseHandshakeFieldWrapped")
     \/ \E k \in 0..MaxEvents : \E events \in [1..k -> EventToks] :
          call = Pending("parseEventsArray", events)
     \/ \E k \in 0..MaxPerm : \E ids \in [1..k -> Doors], pad \in [1..k -> Blanks] :
          call = Pending("validateDoorPermission", [ids |-> ids, str |-> Join(ids, pad, 1)])
     \/ \E checkpoint \in Checkpoints, limit \in {0, 10}, prefOk \in BOOLEAN :
          call = Pending("pullQueryBuilder",
                         [checkpoint |-> checkpoint, limit |-> limit, prefOk |-> prefOk])
     \/ \E plainResponse \in Responses : call = Pending("responseModifier", plainResponse)

\* the pending call of fn returns res
Return(fn, res) ==
  /\ call.fn = fn /\ ~call.done
  /\ call' = [call EXCEPT !.done = TRUE, !.res = res]
  /\ UNCHANGED serviceVars

CallGetOnlineStatus ==
  /\ call.fn = "getOnlineStatus"
  /\ Return("getOnlineStatus", getOnlineStatus(call.arg.txnStatus, call.arg.handshakeStatus))

CallQueryBuilder ==
  /\ call.fn = "queryBuilder"
  /\ Return("queryBuilder", queryBuilder(call.arg))

CallParseHandshakeField ==
  /\ call.fn = "parseHandshakeField"
  /\ Return("parseHandshakeField", parseHandshakeField(call.arg))

CallParseHandshakeFieldWrapped ==
  /\ call.fn = "parseHandshakeFieldWrapped"
  /\ Return("parseHandshakeFieldWrapped", parseHandshakeFieldWrapped(call.arg))

CallParseEventsArray ==
  /\ call.fn = "parseEventsArray"
  /\ Return("parseEventsArray", parseEventsArray(call.arg))

\* validateDoorPermission for every door id, on the string and on the array
CallValidateDoorPermission ==
  /\ call.fn = "validateDoorPermission"
  /\ Return("validateDoorPermission",
            [d \in Doors |-> [str |-> validateDoorPermission(PermStr(call.arg.str), d),
                              arr |-> validateDoorPermission(PermArr(call.arg.ids), d)]])

\* pull.queryBuilder: getClientId() is awaited first (nothing is cached, so it reads
\* Preferences and may throw, which rejects the promise), then the request is built
CallPullQueryBuilder ==
  /\ call.fn = "pullQueryBuilder"
  /\ Return("pullQueryBuilder",
            IF cachedId = None /\ ~call.arg.prefOk THEN [t |-> "rejected"]
            ELSE pullQueryBuilder(call.arg.checkpoint, call.arg.limit))

CallResponseModifier ==
  /\ call.fn = "responseModifier"
  /\ Return("responseModifier", responseModifier(call.arg))

UtilNext ==
  \/ CallGetOnlineStatus
  \/ CallQueryBuilder
  \/ CallParseHandshakeField
  \/ CallParseHandshakeFieldWrapped
  \/ CallParseEventsArray
  \/ CallValidateDoorPermission
  \/ CallPullQueryBuilder
  \/ CallResponseModifier

UtilSpec == UtilInit /\ [][UtilNext]_vars

\* the call of fn has returned
Returned(fn) == call.fn = fn /\ call.done

----------------------------------------------------------------------------
(* Vocabulary of the properties *)

\* door is one of the ids listed in door_permission
InPermission(perm, door) == \E i \in 1..Len(perm.v) : perm.v[i] = door

\* the acknowledgment map has door -> "ok"
Acked(row, door) ==
  LET m == parseHandshakeField(row.handshake) IN door \in DOMAIN m /\ m[door] = "ok"

\* the step is a reconciler write of door into the handshake row of t in database db
WriteBy(db, t, door) == stores'[db].hs[t].acks[door] > stores[db].hs[t].acks[door]

\* some handler invocation has ended with this outcome
Ended(outcome) == \E s \in Slots : h[s].pc = "done" /\ h[s].outcome = outcome

RECURSIVE Depth(_, _, _)

\* braces opened minus braces closed in s[i..j]
Depth(s, i, j) ==
  IF j < i THEN 0
  ELSE Depth(s, i, j - 1) + (IF s[j].t = "{" THEN 1 ELSE IF s[j].t = "}" THEN -1 ELSE 0)

\* s[i..j] is one brace-balanced {...} substring
Balanced(s, i, j) ==
  /\ i < j /\ s[i].t = "{" /\ s[j].t = "}"
  /\ Depth(s, i, j) = 0
  /\ \A k \in i..(j - 1) : Depth(s, i, k) > 0

\* the maximal brace-balanced substrings of s, as pairs of positions
MaximalBalanced(s) ==
  {p \in (1..Len(s)) \X (1..Len(s)) :
     /\ Balanced(s, p[1], p[2])
     /\ ~\E q \in (1..Len(s)) \X (1..Len(s)) :
          q # p /\ q[1] <= p[1] /\ p[2] <= q[2] /\ Balanced(s, q[1], q[2])}

\* those of them that are JSON objects
RecoverableAt(s) ==
  {p \in MaximalBalanced(s) : JSONparse(SubSeq(s, p[1], p[2])).kind = "obj"}

ObjectAt(s, p) == JSONparse(SubSeq(s, p[1], p[2])).map

\* their shallow merge in left-to-right order, later keys overriding earlier ones
MergeOfRecoverable(s) ==
  [k \in UNION {DOMAIN ObjectAt(s, p) : p \in RecoverableAt(s)} |->
     LET last == CHOOSE p \in RecoverableAt(s) :
                   /\ k \in DOMAIN ObjectAt(s, p)
                   /\ \A q \in RecoverableAt(s) : k \in DOMAIN ObjectAt(s, q) => q[1] <= p[1]
     IN ObjectAt(s, last)[k]]

\* s contains a JSON object fragment with top-level key d and value "ok"
HasAckFragment(s, d) ==
  \E i \in 1..Len(s), j \in 1..Len(s) :
    LET v == JSONparse(SubSeq(s, i, j))
    IN i <= j /\ v.kind = "obj" /\ d \in DOMAIN v.map /\ v.map[d] = "ok"

\* the two versions of parseHandshakeField
HandshakeParsers == {"parseHandshakeField", "parseHandshakeFieldWrapped"}

\* e is an event { type: 'RECEIVE', actor: 'DOOR-' + door, status: 'SUCCESS' }
IsReceiveEvent(e, door) ==
  e.kind = "obj" /\ e.map = [type |-> "RECEIVE", actor |-> Actor(door), status |-> "SUCCESS"]

\* the RECEIVE events of an actor in the text of an events field
ReceiveTokens(events, actor) ==
  {i \in 1..Len(events) : events[i].t = "ev" /\ events[i].a = "RECEIVE" /\ events[i].b = actor}

----------------------------------------------------------------------------
(* C1 *)

\* C1: idempotence.  A handler run that reaches its handshake lookup for a row the
\* local door has already written (a second or later run on the same record) issues
\* no write: it ends at step 7 or 9 and the row keeps its handshake and events.
C1_Idempotent ==
  [][\A s \in Slots :
       (/\ h[s].pc = "findHs"
        /\ h'[s] # h[s]
        /\ ~dbThrows
        /\ h[s].tid \in TxnIds
        /\ stores[DB_INSTANCE].hs[h[s].tid].acks[h[s].clientId] > 0)
       => (h'[s].pc = "done" /\ stores' = stores)]_vars

\* a second run on the Scenario 1 row was skipped after the first run wrote
C1_Witness ==
  /\ srv = Scenario1
  /\ Ended("written")
  /\ Ended("skipped")
  /\ \E d \in Doors, door \in Doors : stores[d].hs["T1"].acks[door] = 1

----------------------------------------------------------------------------
(* C2 *)

\* C2: a reconciler write keeps every other door's acknowledgment: whenever door D
\* writes a handshake row, each X # D that the acknowledgment map held before the
\* write is still held after it.
C2_KeepsOtherDoors ==
  [][\A db \in Doors, t \in TxnIds, door \in Doors, x \in Doors :
       (WriteBy(db, t, door) /\ x # door /\ Acked(stores[db].hs[t], x))
       => Acked(stores'[db].hs[t], x)]_vars

----------------------------------------------------------------------------
(* C3 *)

\* C3: authorization.  Every reconciler write of a door id into a handshake row is by
\* a door listed in the door_permission of the row's transaction; a door that is not
\* listed changes no handshake row.
C3_Authorized ==
  [][\A db \in Doors, t \in TxnIds, door \in Doors :
       (\/ WriteBy(db, t, door)
        \/ /\ stores'[db].hs[t] # stores[db].hs[t]
           /\ stores[db].hs[t].present /\ stores'[db].hs[t].present
           /\ Acked(stores'[db].hs[t], door) /\ ~Acked(stores[db].hs[t], door))
       => InPermission(srv.perm, door)]_vars

\* a permitted door has written while the other door is not permitted
C3_Witness ==
  /\ srv.perm = PermStr(<<"D2">>)
  /\ Ended("written")
  /\ \E d \in Doors : stores[d].hs["T1"].acks["D2"] = 1

----------------------------------------------------------------------------
(* C4 *)

\* C4: positive path.  With the Scenario 1 rows stored, the one write a handler run
\* for door D makes leaves the acknowledgment map {D: "ok"}, an event log (the events
\* field as parseEventsArray reads it) of the one event {RECEIVE, DOOR-D, SUCCESS},
\* client_updated_at later than before, and is the only write the row has taken.
C4_PositivePath ==
  [][\A db \in Doors, t \in TxnIds, door \in Doors :
       (srv = Scenario1 /\ WriteBy(db, t, door))
       => LET old == stores[db].hs[t]
              new == stores'[db].hs[t]
          IN /\ parseHandshakeField(new.handshake) = [k \in {door} |-> "ok"]
             /\ Len(parseEventsArray(new.events)) = 1
             /\ IsReceiveEvent(parseEventsArray(new.events)[1], door)
             /\ new.client_updated_at > old.client_updated_at
             /\ new.acks = [NoAcks EXCEPT ![door] = 1]
             /\ new.rev = 1]_vars

----------------------------------------------------------------------------
(* C5 *)

\* C5: referential readiness.  A record without transaction_id, or whose transaction
\* is not in the local store, ends its handler run with no store mutation and no
\* error; and the reconciler writes a handshake row only in a state where the row's
\* parent transaction is in the same local store.
C5_ReferentialReadiness ==
  [][/\ \A s \in Slots :
          (/\ h'[s] # h[s]
           /\ \/ h[s].pc = "idle" /\ h'[s].tid = None /\ h'[s].pc = "done"
              \/ /\ h[s].pc = "findTxn"
                 /\ dbThrows \/ ~stores[DB_INSTANCE].txn[h[s].tid].present)
          => (h'[s] = Done("dropped") /\ stores' = stores)
     /\ \A db \in Doors, t \in TxnIds, door \in Doors :
          WriteBy(db, t, door) => stores[db].txn[t].present]_vars

----------------------------------------------------------------------------
(* C6 *)

\* C6: exactly-once acknowledgment.  No local handshake row ever takes more than one
\* reconciler write per door, however the deliveries of its record interleave.
C6_AtMostOneWrite ==
  \A db \in Doors, t \in TxnIds, door \in Doors : stores[db].hs[t].acks[door] <= 1

\* two runs passed their lookups on the same revision; one has written and the other
\* is about to attempt its write
C6_Witness ==
  /\ h[1].pc = "done" /\ h[1].outcome = "written"
  /\ h[2].pc = "update" /\ h[2].rev = 0
  /\ stores[h[2].db].epoch = h[2].epoch
  /\ stores[h[2].db].hs[h[2].tid].rev = 1
  /\ stores[h[2].db].hs[h[2].tid].acks[h[2].clientId] = 1

----------------------------------------------------------------------------
(* C7 *)

\* C7: the event log is append-only: after a reconciler write by door D the log is
\* the log before the write followed by exactly one new RECEIVE event of DOOR-D.
C7_AppendOnly ==
  [][\A db \in Doors, t \in TxnIds, door \in Doors :
       WriteBy(db, t, door)
       => LET before == parseEventsArray(stores[db].hs[t].events)
              after == parseEventsArray(stores'[db].hs[t].events)
          IN /\ Len(after) = Len(before) + 1
             /\ SubSeq(after, 1, Len(before)) = before
             /\ IsReceiveEvent(after[Len(after)], door)]_vars

----------------------------------------------------------------------------
(* C8 *)

\* C8: no events field of a stored handshake row ever holds two RECEIVE events of the
\* same actor.
C8_NoDuplicateReceive ==
  \A db \in Doors, t \in TxnIds, door \in Doors :
    Cardinality(ReceiveTokens(stores[db].hs[t].events, Actor(door))) <= 1

\* a door has written a row whose events field already held its RECEIVE event in a
\* form the events parser does not read
C8_Witness ==
  /\ srv.events = <<EvD1>>
  /\ \E db \in Doors :
       /\ stores[db].hs["T1"].acks["D1"] = 1
       /\ Cardinality(ReceiveTokens(stores[db].hs["T1"].events, Actor("D1"))) = 1

----------------------------------------------------------------------------
(* C9 *)

\* C9: no failure inside a handler run escapes it: no run ends with a thrown error or
\* a rejected promise.
C9_NoErrorEscapes == \A s \in Slots : h[s].outcome # "rejected"

----------------------------------------------------------------------------
(* C10 *)

\* C10: a record handled while its transaction and handshake are stored, the local
\* door is permitted and has not acknowledged, is not dropped at the transaction
\* lookup: the run goes on towards the write, also during the initial replication
\* inside initialize().
C10_EveryRecordReconciled ==
  [][\A s \in Slots :
       (h[s].pc = "findTxn" /\ h'[s] # h[s] /\ Eligible(h[s].tid))
       => h'[s].outcome # "dropped"]_vars

----------------------------------------------------------------------------
(* C11 *)

\* C11: initialize is a mutual-exclusion gate.  While an initialize is in flight every
\* initialize call throws, and no step starts another initialization or changes the
\* door of the one in flight.
C11_MutualExclusion ==
  [][isInitializing
     => /\ \A d \in Doors : initializeEntry(d) = "throw"
        /\ inits' = inits
        /\ initDoor' = initDoor]_vars

\* an initialize is in flight, past the creation of its database
C11_Witness ==
  /\ isInitializing
  /\ initPc = "regHs"
  /\ inits < MaxInits
  /\ initializeEntry(initDoor) = "throw"

----------------------------------------------------------------------------
(* C12 *)

\* C12: every initialize that enters Initializing eventually leaves it, when every
\* store and network operation completes or fails and failed pulls are retried.
C12_InitializeTerminates == isInitializing ~> ~isInitializing

----------------------------------------------------------------------------
(* C13 *)

\* C13: the lifecycle never moves from Ready directly to Initializing.
C13_NoReadyToInitializing ==
  [][~(initState = "ready" /\ initState' = "initializing")]_vars

----------------------------------------------------------------------------
(* C14 *)

\* C14: at most one database is created and not yet removed at any time.
C14_OneOpenStore == Cardinality(openDbs) <= 1

----------------------------------------------------------------------------
(* C15 *)

\* C15: when a step of initialize fails, the state becomes Error, the database the
\* attempt opened is released and no database handle remains held.
C15_FailureReleasesStore ==
  [][(initPc # "idle" /\ initPc' = "idle" /\ ~isReady')
     => /\ initState' = "error"
        /\ DB_INSTANCE' = None
        /\ inits \notin openDbs']_vars

----------------------------------------------------------------------------
(* C16 *)

\* C16: in state Ready, initialize for the active door returns at once, and no step
\* starts an initialization for the active door.
C16_SameDoorNoOp ==
  [][\A d \in Doors :
       (initState = "ready" /\ currentDoorId = d)
       => /\ initializeEntry(d) = "return"
          /\ inits' # inits => initDoor' # d]_vars

\* a session is Ready and a further initialize could still start
C16_Witness ==
  /\ initState = "ready"
  /\ currentDoorId \in Doors
  /\ inits < MaxInits
  /\ destroyPc = "idle"
  /\ initializeEntry(currentDoorId) = "return"

----------------------------------------------------------------------------
(* C17 *)

\* C17: while an initialize is in flight, destroy throws.
C17_DestroyThrowsWhileInitializing == isInitializing => destroyEntry = "throw"

----------------------------------------------------------------------------
(* C18 *)

\* C18: when destroy stops the transaction service, the handshake service has already
\* been stopped.
C18_HandshakeStoppedFirst ==
  [][(destroyPc = "idle" /\ destroyPc' = "stopHs" /\ txnRef \in txnLive /\ txnRef \notin txnLive')
     => hsRef \notin hsLive]_vars

----------------------------------------------------------------------------
(* C19 *)

----------------------------------------------------------------------------
(* C20 *)

\* C20: session isolation.  A handler run makes a store lookup only while the database
\* of the session whose subscription delivered its record has not been removed.
C20_SessionIsolation ==
  [][\A s \in Slots :
       (h'[s] # h[s] /\ h[s].pc \in {"findTxn", "findHs"} /\ ~dbThrows)
       => h[s].sess \in openDbs]_vars

----------------------------------------------------------------------------
(* C21 *)

\* C21: offline registration is deferred, not failed.  When the connectivity oracle
\* reports offline, the handshake replication setup creates no replication state, no
\* retry timer and no received$ subscription (no handler run starts), raises nothing,
\* and initialize completes in state Ready for its door.
C21_OfflineDeferred ==
  [][InitRegHs(FALSE)
     => /\ hsLive' = hsLive /\ inits \notin hsLive'
        /\ retryWait' = retryWait
        /\ h' = h
        /\ initState' = "ready" /\ isReady' /\ ~isInitializing'
        /\ currentDoorId' = initDoor
        /\ DB_INSTANCE' = initDoor]_vars

\* the first session is Ready, its transaction replication runs and its handshake
\* replication was never set up
C21_Witness ==
  /\ inits = 1
  /\ initState = "ready" /\ isReady
  /\ 1 \in txnLive /\ 1 \notin hsLive
  /\ destroyPc = "idle"

----------------------------------------------------------------------------
(* C22 *)

\* C22: getOnlineStatus() is the logical OR of the two services' last-known
\* connectivity flags, a service that has not been constructed counting as false.
C22_OnlineIsOr ==
  Returned("getOnlineStatus")
  => (call.res <=> (call.arg.txnStatus = "true" \/ call.arg.handshakeStatus = "true"))

\* only the handshake service is constructed and it is online: the status is true
C22_Witness ==
  /\ Returned("getOnlineStatus")
  /\ call.arg = [txnStatus |-> "undefined", handshakeStatus |-> "true"]
  /\ call.res = TRUE

----------------------------------------------------------------------------
(* C23 *)

\* C23: stopReplication() is idempotent.  Called on its own in any lifecycle state it
\* stops the services that are set, leaves the lifecycle state, the active door id and
\* the database handle as they are, and changes nothing at all when both services are
\* already stopped or were never built.
C23_StopIdempotent ==
  [][(StopReplicationStart \/ StopReplicationHs)
     => /\ initState' = initState /\ isReady' = isReady /\ isInitializing' = isInitializing
        /\ currentDoorId' = currentDoorId
        /\ DB_INSTANCE' = DB_INSTANCE /\ stores' = stores
        /\ StopReplicationStart => txnRef \notin txnLive'
        /\ StopReplicationHs => hsRef \notin hsLive'
        /\ (txnRef \notin txnLive /\ hsRef \notin hsLive /\ hsRef \notin retryWait)
           => (txnLive' = txnLive /\ hsLive' = hsLive /\ retryWait' = retryWait)]_vars

\* a stopReplication() call made in a Ready session is between its two stops and has
\* nothing left to stop
C23_Witness ==
  /\ destroyPc = "stopOnly"
  /\ initState = "ready" /\ currentDoorId \in Doors
  /\ txnRef \notin txnLive /\ hsRef \notin hsLive

----------------------------------------------------------------------------
(* C24 *)

\* C24: push mapping.  In every write row of a push batch, deleted is true exactly
\* when the row's assumed master state is absent (the property is missing or null).
C24_DeletedIffAbsent ==
  Returned("queryBuilder")
  => \A i \in 1..Len(call.arg) :
       call.res[i].newDocumentState.deleted
         <=> (call.arg[i].assumedMasterState \in {"undefined", "null"})

----------------------------------------------------------------------------
(* C25 *)

\* C25: write precondition.  The reconciler writes door D into a handshake row only
\* when the row, as stored just before the write, has no event of type RECEIVE and
\* actor DOOR-D in its parsed event log and no D -> "ok" in its parsed acknowledgment
\* map; with either signal present, the map signal alone included, no write occurs.
C25_WritePrecondition ==
  [][\A db \in Doors, t \in TxnIds, door \in Doors :
       WriteBy(db, t, door)
       => LET old == stores[db].hs[t]
              log == parseEventsArray(old.events)
          IN /\ ~\E i \in 1..Len(log) : IsReceiveOf(log[i], door)
             /\ ~Acked(old, door)]_vars

\* a run ended without a write on a row whose events field is unparsable and whose
\* acknowledgment map, recovered from fragments, holds the door: the map signal alone
C25_Witness ==
  /\ srv.events = <<GARB>>
  /\ parseEventsArray(srv.events) = <<>>
  /\ \A d \in Doors : Acked(srv, d)
  /\ Ended("skipped")
  /\ \A db \in Doors : stores[db].hs["T1"].acks = NoAcks

----------------------------------------------------------------------------
(* C26 *)

\* C26: tolerant recovery result.  For a handshake string that is not a single JSON
\* object, parseHandshakeField returns the shallow merge, left to right with later
\* keys overriding earlier ones, of the JSON objects recoverable from it, and the
\* empty map when there is none; {"a":"ok"}garbage{"b":"ok"} gives {a: "ok", b: "ok"}.
C26_TolerantMerge ==
  \A fn \in HandshakeParsers :
    (Returned(fn) /\ call.arg # <<>> /\ JSONparse(call.arg).kind # "obj")
    => call.res = MergeOfRecoverable(call.arg)

----------------------------------------------------------------------------
(* C27 *)

\* C27: recovery completeness.  The brace scan extracts every maximal brace-balanced
\* substring whatever surrounds it: every key of every such substring that is a JSON
\* object is in the map parseHandshakeField returns, also after a stray "}" or an
\* unclosed "{".
C27_RecoveryComplete ==
  Returned("parseHandshakeField")
  => \A p \in RecoverableAt(call.arg) :
       \A k \in DOMAIN ObjectAt(call.arg, p) : k \in DOMAIN call.res

----------------------------------------------------------------------------
(* C28 *)

----------------------------------------------------------------------------
(* C29 *)

\* C29: tolerant events parse.  For an events field that is absent, not valid JSON, or
\* valid JSON that is not an array, parseEventsArray returns the empty sequence (it
\* always returns, it never throws); for a valid JSON array it returns that array.
C29_TolerantEvents ==
  Returned("parseEventsArray")
  => LET v == JSONparse(call.arg)
     IN /\ (call.arg = <<>> \/ v.kind \in {"error", "obj", "null"}) => call.res = <<>>
        /\ (call.arg # <<>> /\ v.kind = "arr") => call.res = v.elems

\* the events field "{}" was read as the empty sequence
C29_Witness ==
  /\ Returned("parseEventsArray")
  /\ call.arg = <<LB, RB>>
  /\ call.res = <<>>

----------------------------------------------------------------------------
(* C30 *)

\* C30: permission normalization.  A list of door ids persisted as a native array and
\* the same list persisted as a comma-joined string, with or without blanks around
\* the ids, give the same answer for every door id: the door is authorized exactly
\* when it is in the list, and an empty or missing field authorizes no door.
C30_PermissionNormalized ==
  Returned("validateDoorPermission")
  => \A d \in Doors :
       /\ call.res[d].str = call.res[d].arr
       /\ call.res[d].arr = InPermission(PermArr(call.arg.ids), d)
       /\ call.arg.ids = <<>> => ~call.res[d].str

\* the string "D1, D2" and the array [D1, D2] both authorize D2
C30_Witness ==
  /\ Returned("validateDoorPermission")
  /\ call.arg = [ids |-> <<"D1", "D2">>, str |-> <<"D1", ",", " ", "D2">>]
  /\ call.res["D2"] = [str |-> TRUE, arr |-> TRUE]

----------------------------------------------------------------------------
(* C31 *)

\* C31: storage failure is safe.  When the write of updateHandshake does not go
\* through, the run ends with the error logged (outcome "writeFailed"), never with a
\* rejected promise, and no row of any store changes; when the failure was the
\* storage's (the document held was still the stored revision), the row still shows
\* no signal for the door, so a redelivered record passes the same checks and
\* reaches the write again.
C31_StorageFailureSafe ==
  [][\A s \in Slots :
       (h[s].pc = "update" /\ h'[s].pc = "done" /\ h'[s].outcome # "written")
       => /\ h'[s].outcome = "writeFailed"
          /\ stores' = stores
          /\ canWrite(h[s])
             => LET doc == stores'[h[s].db].hs[h[s].tid] IN
                /\ \A i \in 1..Len(parseEventsArray(doc.events)) :
                     ~IsReceiveOf(parseEventsArray(doc.events)[i], h[s].clientId)
                /\ ~hasDoorAcknowledgment(parseHandshakeField(doc.handshake),
                                          h[s].clientId)]_vars

\* a first run failed at the write although no row was ever written or replaced, and
\* a redelivered record has passed the checks and stands at the write again
C31_Witness ==
  /\ h[1] = Done("writeFailed")
  /\ h[2].pc = "update"
  /\ h[2].tid = "T1"
  /\ \A d \in Doors : stores[d].epoch = 0 /\ stores[d].hs["T1"].rev = 0

----------------------------------------------------------------------------
(* C32 *)

\* C32: pull checkpoint handling.  A pull request that is built carries the checkpoint
\* {id: "", server_updated_at: "0"} when no checkpoint is known and otherwise the id
\* and server_updated_at of the last checkpoint the server returned, unchanged; the
\* response modifier hands on the checkpoint and the documents of the body (the
\* empty list when documents is missing) as they are, whether the body is the
\* response itself or lies under pullHandshake or streamHandshake.
C32_CheckpointPassThrough ==
  /\ (Returned("pullQueryBuilder") /\ call.res.t = "request")
     => IF call.arg.checkpoint = Undefined
        THEN call.res.checkpoint = Checkpoint(Str(""), Str("0"))
        ELSE call.res.checkpoint = call.arg.checkpoint
  /\ Returned("responseModifier")
     => \A data \in Bodies :
          call.arg \in {data, Under("pullHandshake", data), Under("streamHandshake", data)}
          => /\ call.res.checkpoint = data.checkpoint
             /\ call.res.documents =
                  (IF data.documents = Undefined THEN Arr(<<>>) ELSE data.documents)

----------------------------------------------------------------------------
(* C33 *)

\* C33: store/door consistency.  In every reachable state, when DatabaseService.db
\* returns a store without throwing, the lifecycle state is Ready and the store is the
\* one opened for currentDoorId; in every other lifecycle state db throws.
C33_StoreDoorConsistency ==
  /\ ~dbThrows => DB_INSTANCE = currentDoorId
  /\ initState # "ready" => dbThrows

----------------------------------------------------------------------------
(* C34 *)

\* C34: no replication outlives its session.  Whenever the lifecycle state is Idle or
\* Error, no replication started by a session is still running and the manager
\* holds no replication service, so that getOnlineStatus() is false.
C34_NoReplicationOutlivesSession ==
  initState \in {"idle", "error"}
  => /\ txnLive = {} /\ hsLive = {}
     /\ txnRef = 0 /\ hsRef = 0

----------------------------------------------------------------------------
(* C35 *)

\* C35: identity cache coherence.  After any sequence of setClientId, removeClientId
\* and getClientId calls, the id getClientId() would return is the client id stored
\* last, and none once removeClientId() has succeeded with no setClientId after it.
C35_CacheCoherent == identityNow = prefClientId

----------------------------------------------------------------------------
(* C36 *)

\* C36: door change ordering.  performDoorChange removes the stored client id, and
\* presents the door-selection modal, only after its destroy() call has resolved, at
\* which point no session is ready and no destroy is in flight; when the database
\* is initializing or destroy() throws, the call ends at the error alert with the
\* stored client id as it was and no modal.
C36_DoorChangeOrdering ==
  [][/\ (prefClientId # None /\ prefClientId' = None)
        => AtStage("remove") /\ call.res = "resolved"
     /\ (call' # call /\ AtStage("modal")')
        => AtStage("remove") /\ call.res = "resolved"
     /\ (call' # call /\ AtStage("remove")')
        => call'.res = "resolved" /\ ~isReady' /\ destroyPc' = "idle"
     /\ (call' # call /\ call'.res \in {"initializing", "rejected"})
        => AtStage("alert")' /\ prefClientId' = prefClientId]_vars

\* the database of the old door was removed, then the stored id, and the modal is up
C36_Witness ==
  /\ AtStage("modal")
  /\ call.res = "resolved"
  /\ prefClientId = None
  /\ DB_INSTANCE = None
  /\ \E d \in Doors : stores[d].epoch > 0

----------------------------------------------------------------------------
(* C37 *)

\* C37: access decision.  checkAccess issues its lookup only when a client id is
\* stored and the database is initialized, and it reports hasAccess = true only if
\* a local transaction exists for the student number entered, its status is IN and
\* the stored client id, the current door, is a member of its normalized
\* door_permission; in every other case it reports hasAccess = false.
C37_AccessDecision ==
  [][/\ (access.pc = "getClientId" /\ access'.pc = "findOne")
        => prefClientId # None /\ isReady
     /\ (access.pc = "findOne" /\ access'.pc = "shown" /\ access'.hasAccess)
        => /\ prefClientId # None
           /\ access'.student \in TxnIds
           /\ stores[access.db].txn[access'.student].present
           /\ access'.status = "IN"
           /\ LET permitted == doorPermissions(stores[access.db].txn[access'.student].perm)
              IN \E i \in 1..Len(permitted) : permitted[i] = <<prefClientId>>]_vars

====
